---- MODULE Spec2Model ----
(***************************************************************************)
(* Model of examples/nunchuck.rs: the Wii Nunchuck polling example.        *)
(*                                                                         *)
(*   Spec        main(): Nunchuck::new (open + init handshake) followed by *)
(*               the endless read/print loop, against a transport whose    *)
(*               every call may fail and whose read may be short.          *)
(*   LiveSpec    Spec with weak fairness of the (single-threaded) program. *)
(*   DecodeSpec  NunchuckReading::from_data applied to slices of every     *)
(*               length 0..MaxLen over the sample byte values.             *)
(***************************************************************************)
EXTENDS Integers, Sequences, FiniteSets, TLC

VARIABLES
    pc,        \* position of main / Nunchuck::new / init / read
    handle,    \* the LinuxI2CDevice: "none", "open" or "closed" (dropped)
    opens,     \* number of LinuxI2CDevice::new calls made
    session,   \* TRUE once main holds Ok(nunchuck)
    newres,    \* the value Nunchuck::new returned to main
    initlog,   \* bus transactions issued by init, in order
    rdlog,     \* bus transactions issued by the current call of read
    slept,     \* milliseconds slept inside the current call of read
    buf,       \* read's local buffer  [u8; 6]
    got,       \* byte count the transport read reported (-1: none yet)
    data,      \* the slice handed to from_data
    ret,       \* what from_data returned
    result,    \* what read returned to the loop
    out,       \* the last line main printed
    initres,   \* the value init returned to Nunchuck::new
    fault,     \* the last error the transport raised
    reads      \* completed loop iterations (saturating at MaxReads)

vars == <<pc, handle, opens, session, newres, initlog, rdlog, slept,
          buf, got, data, ret, result, out, initres, fault, reads>>

(***************************************************************************)
(* Bounds                                                                  *)
(***************************************************************************)
MaxReads == 2      \* the loop counter saturates here
MaxLen   == 7      \* longest slice handed to from_data in DecodeSpec
NumVals  == 4      \* sample byte values handed to from_data in DecodeSpec
NumWire  == 2      \* sample byte values the transport delivers in Spec

\* 109 = 0b01101101: the three 2-bit fragments differ (1, 2, 3) and so do
\* the two button bits
SampleBytes == <<0, 255, 109, 3, 254, 85, 170, 1, 2>>

Min(a, b) == IF a < b THEN a ELSE b

ByteVals == { SampleBytes[i] : i \in 1..Min(NumVals, Len(SampleBytes)) }

WireVals == { SampleBytes[i] : i \in 1..Min(NumWire, Len(SampleBytes)) }

RECURSIVE SeqsUpTo(_, _)
SeqsUpTo(S, n) ==
    IF n = 0 THEN { <<>> }
    ELSE LET shorter == SeqsUpTo(S, n - 1)
         IN  shorter \cup { Append(s, v) : s \in { t \in shorter : Len(t) = n - 1 }, v \in S }

SeqsOfLen(S, n) == { s \in SeqsUpTo(S, n) : Len(s) = n }

(***************************************************************************)
(* Program constants                                                       *)
(***************************************************************************)
BufLen   == 6
SleepMs  == 10
RegF0    == 240                \* 0xF0
Val55    == 85                 \* 0x55
RegFB    == 251                \* 0xFB
Val00    == 0
Trigger  == 0
NoReg    == -1                 \* smbus_write_byte carries no register
U16      == 65536
U8       == 256

(***************************************************************************)
(* Integer operators of lines 58-62, on unsigned values                    *)
(***************************************************************************)
RECURSIVE BitOr(_, _)
BitOr(a, b) ==
    IF a = 0 THEN b
    ELSE IF b = 0 THEN a
    ELSE 2 * BitOr(a \div 2, b \div 2) + (IF a % 2 = 1 \/ b % 2 = 1 THEN 1 ELSE 0)

RECURSIVE BitAnd(_, _)
BitAnd(a, b) ==
    IF a = 0 \/ b = 0 THEN 0
    ELSE 2 * BitAnd(a \div 2, b \div 2) + (IF a % 2 = 1 /\ b % 2 = 1 THEN 1 ELSE 0)

AsU16(b) == b % U16                      \* `as u16`: zero extension

Shl16(x, n) == (x * (2 ^ n)) % U16       \* u16 << n, bits above 15 dropped

Shr16(x, n) == x \div (2 ^ n)            \* u16 >> n

At(d, i) == d[i + 1]                     \* data[i], zero-based as in the source

\* a shift done in the byte before widening: bits 6 and 7 are lost
AccelNarrow(hi, b5, sh) ==
    BitOr(AsU16((hi * 4) % U8), BitAnd(Shr16(AsU16(b5), sh), 3))

\* the high byte shifted one place too far
AccelShift3(hi, b5, sh) ==
    BitOr(Shl16(AsU16(hi), 3), BitAnd(Shr16(AsU16(b5), sh), 3))

\* (hi as u16) << 2 | ((b5 as u16 >> sh) & 0b11)
Accel(hi, b5, sh) ==
    BitOr(Shl16(AsU16(hi), 2), BitAnd(Shr16(AsU16(b5), sh), 3))

\* active-high reading of a button bit
ButtonActiveHigh(b5, mask) == BitAnd(b5, mask) # 0

\* (b5 & mask) == 0
Button(b5, mask) == BitAnd(b5, mask) = 0

NotCalled == [tag |-> "none"]            \* from_data not called yet

None == [tag |-> "None"]

Some(r) == [tag |-> "Some", val |-> r]

MkReading(d) ==
    [ joystick_x       |-> At(d, 0),
      joystick_y       |-> At(d, 1),
      accel_x          |-> Accel(At(d, 2), At(d, 5), 6),
      accel_y          |-> Accel(At(d, 3), At(d, 5), 4),
      accel_z          |-> Accel(At(d, 4), At(d, 5), 2),
      c_button_pressed |-> Button(At(d, 5), 2),
      z_button_pressed |-> Button(At(d, 5), 1) ]

\* length test off by one: a 6-byte slice is rejected
from_data_strict(d) == IF Len(d) <= BufLen THEN None ELSE Some(MkReading(d))

from_data(d) == IF Len(d) < BufLen THEN None ELSE Some(MkReading(d))

(***************************************************************************)
(* Values of I2CResult                                                     *)
(***************************************************************************)
IoErrors == { "EIO", "ENXIO" }           \* errors the transport may raise

Transport(e) == [kind |-> "Transport", code |-> e]

Other(msg) == [kind |-> "Other", msg |-> msg]

NoResult == [tag |-> "none"]

Ok(v) == [tag |-> "Ok", val |-> v]

Err(e) == [tag |-> "Err", err |-> e]

Unit == "()"

\* a transaction on the bus; err = "ok" when the transport accepted it
WriteReg(reg, val, err) ==
    [op |-> "smbus_write_byte_data", reg |-> reg, val |-> val, err |-> err]

WriteByte(val, err) ==
    [op |-> "smbus_write_byte", reg |-> NoReg, val |-> val, err |-> err]

ReadBytes(len, after, err) ==
    [op |-> "read", len |-> len, after |-> after, err |-> err]

Outcomes == { "ok" } \cup IoErrors

Zeros(n) == [i \in 1..n |-> 0]

\* the first Len(bytes) cells of b overwritten, the rest left as they were
Fill(b, bytes) == [i \in 1..Len(b) |-> IF i <= Len(bytes) THEN bytes[i] ELSE b[i]]

NoFault == [kind |-> "none"]

(***************************************************************************)
(* State after process start: main is about to call Nunchuck::new          *)
(***************************************************************************)
Init ==
    /\ pc = "main"
    /\ handle = "none"
    /\ opens = 0
    /\ session = FALSE
    /\ newres = NoResult
    /\ initres = NoResult
    /\ initlog = <<>>
    /\ rdlog = <<>>
    /\ slept = 0
    /\ buf = Zeros(BufLen)
    /\ got = -1
    /\ data = <<>>
    /\ ret = NotCalled
    /\ result = NoResult
    /\ out = "none"
    /\ fault = NoFault
    /\ reads = 0

(***************************************************************************)
(* Nunchuck::new, line 79: LinuxI2CDevice::new(path, NUNCHUCK_SLAVE_ADDR)  *)
(***************************************************************************)
new_open ==
    /\ pc = "main"
    /\ opens' = opens + 1
    /\ \E o \in Outcomes :
          IF o = "ok"
          THEN /\ handle' = "open"
               /\ pc' = "init_w1"
               /\ UNCHANGED <<newres, fault>>
          ELSE /\ fault' = Transport(o)
               /\ newres' = Err(Transport(o))
               /\ pc' = "new_ret"
               /\ UNCHANGED handle
    /\ UNCHANGED <<session, initres, initlog, rdlog, slept, buf, got,
                   data, ret, result, out, reads>>

\* the error of the first write ignored: the second write is still sent
init_write1_nostop ==
    /\ pc = "init_w1"
    /\ \E o \in Outcomes :
          /\ initlog' = Append(initlog, WriteReg(RegF0, Val55, o))
          /\ fault' = IF o = "ok" THEN fault ELSE Transport(o)
          /\ pc' = "init_w2"
          /\ UNCHANGED initres
    /\ UNCHANGED <<handle, opens, session, newres, rdlog, slept, buf, got,
                   data, ret, result, out, reads>>

(***************************************************************************)
(* init, line 90: try!(smbus_write_byte_data(0xF0, 0x55))                  *)
(***************************************************************************)
init_write1 ==
    /\ pc = "init_w1"
    /\ \E o \in Outcomes :
          /\ initlog' = Append(initlog, WriteReg(RegF0, Val55, o))
          /\ IF o = "ok"
             THEN /\ pc' = "init_w2"
                  /\ UNCHANGED <<initres, fault>>
             ELSE /\ fault' = Transport(o)
                  /\ initres' = Err(Transport(o))
                  /\ pc' = "init_ret"
    /\ UNCHANGED <<handle, opens, session, newres, rdlog, slept, buf, got,
                   data, ret, result, out, reads>>

(***************************************************************************)
(* init, lines 91-92: try!(smbus_write_byte_data(0xFB, 0x00)); Ok(())      *)
(***************************************************************************)
init_write2 ==
    /\ pc = "init_w2"
    /\ \E o \in Outcomes :
          /\ initlog' = Append(initlog, WriteReg(RegFB, Val00, o))
          /\ IF o = "ok"
             THEN /\ initres' = Ok(Unit)
                  /\ UNCHANGED fault
             ELSE /\ fault' = Transport(o)
                  /\ initres' = Err(Transport(o))
          /\ pc' = "init_ret"
    /\ UNCHANGED <<handle, opens, session, newres, rdlog, slept, buf, got,
                   data, ret, result, out, reads>>

\* the result of init discarded: new answers Ok whatever init returned
new_return_unchecked ==
    /\ pc = "init_ret"
    /\ newres' = Ok(Unit)
    /\ pc' = "new_ret"
    /\ UNCHANGED <<handle, opens, session, initres, initlog, rdlog, slept,
                   buf, got, data, ret, result, out, fault, reads>>

(***************************************************************************)
(* Nunchuck::new, lines 81-82: try!(nunchuck.init()); Ok(nunchuck).        *)
(* On the error path the local nunchuck, and with it the device, is        *)
(* dropped.                                                                *)
(***************************************************************************)
new_return ==
    /\ pc = "init_ret"
    /\ IF initres.tag = "Ok"
       THEN /\ newres' = Ok(Unit)
            /\ UNCHANGED handle
       ELSE /\ newres' = Err(initres.err)
            /\ handle' = "closed"
    /\ pc' = "new_ret"
    /\ UNCHANGED <<opens, session, initres, initlog, rdlog, slept,
                   buf, got, data, ret, result, out, fault, reads>>

(***************************************************************************)
(* main, lines 116-118: match Nunchuck::new(device)                        *)
(***************************************************************************)
main_match ==
    /\ pc = "new_ret"
    /\ IF newres.tag = "Err"
       THEN /\ out' = "Unable to open"
            /\ pc' = "exit"
            /\ UNCHANGED session
       ELSE /\ session' = TRUE
            /\ pc' = "loop"
            /\ UNCHANGED out
    /\ UNCHANGED <<handle, opens, newres, initres, initlog, rdlog, slept,
                   buf, got, data, ret, result, fault, reads>>

(***************************************************************************)
(* read, lines 95-96: entry of a call from the loop; buf = [0; 6]          *)
(***************************************************************************)
read_enter ==
    /\ pc = "loop"
    /\ buf' = Zeros(BufLen)
    /\ rdlog' = <<>>
    /\ slept' = 0
    /\ got' = -1
    /\ data' = <<>>
    /\ ret' = NotCalled
    /\ result' = NoResult
    /\ pc' = "read_trigger"
    /\ UNCHANGED <<handle, opens, session, newres, initres, initlog, out,
                   fault, reads>>

\* a failed trigger write sent once more before giving up
read_trigger_retry ==
    /\ pc = "read_trigger"
    /\ \E o \in Outcomes :
          /\ rdlog' = Append(rdlog, WriteByte(Trigger, o))
          /\ IF o = "ok"
             THEN /\ pc' = "read_sleep"
                  /\ UNCHANGED <<result, fault>>
             ELSE /\ fault' = Transport(o)
                  /\ IF rdlog = <<>>
                     THEN /\ pc' = "read_trigger"
                          /\ UNCHANGED result
                     ELSE /\ result' = Err(Transport(o))
                          /\ pc' = "read_ret"
    /\ UNCHANGED <<handle, opens, session, newres, initres, initlog, slept,
                   buf, got, data, ret, out, reads>>

(***************************************************************************)
(* read, line 99: try!(smbus_write_byte(0x00))                             *)
(***************************************************************************)
read_trigger ==
    /\ pc = "read_trigger"
    /\ \E o \in Outcomes :
          /\ rdlog' = Append(rdlog, WriteByte(Trigger, o))
          /\ IF o = "ok"
             THEN /\ pc' = "read_sleep"
                  /\ UNCHANGED <<result, fault>>
             ELSE /\ fault' = Transport(o)
                  /\ result' = Err(Transport(o))
                  /\ pc' = "read_ret"
    /\ UNCHANGED <<handle, opens, session, newres, initres, initlog, slept,
                   buf, got, data, ret, out, reads>>

\* the delay left out
read_sleep_skipped ==
    /\ pc = "read_sleep"
    /\ pc' = "read_bytes"
    /\ UNCHANGED <<handle, opens, session, newres, initres, initlog, rdlog,
                   slept, buf, got, data, ret, result, out, fault, reads>>

(***************************************************************************)
(* read, line 102: thread::sleep_ms(10)                                    *)
(***************************************************************************)
read_sleep ==
    /\ pc = "read_sleep"
    /\ slept' = slept + SleepMs
    /\ pc' = "read_bytes"
    /\ UNCHANGED <<handle, opens, session, newres, initres, initlog, rdlog,
                   buf, got, data, ret, result, out, fault, reads>>

(***************************************************************************)
(* read, line 103: try!(self.i2cdev.read(&mut buf)).  The transport either *)
(* fails or reports a count n <= buf.len() of bytes it stored at the front *)
(* of buf; the count is not looked at.                                     *)
(***************************************************************************)
read_bytes ==
    /\ pc = "read_bytes"
    /\ \/ \E e \in IoErrors :
             /\ rdlog' = Append(rdlog, ReadBytes(Len(buf), slept, e))
             /\ fault' = Transport(e)
             /\ result' = Err(Transport(e))
             /\ pc' = "read_ret"
             /\ UNCHANGED <<buf, got>>
       \/ \E n \in 0..Len(buf) : \E bytes \in SeqsOfLen(WireVals, n) :
             /\ rdlog' = Append(rdlog, ReadBytes(Len(buf), slept, "ok"))
             /\ buf' = Fill(buf, bytes)
             /\ got' = n
             /\ pc' = "read_decode"
             /\ UNCHANGED <<result, fault>>
    /\ UNCHANGED <<handle, opens, session, newres, initres, initlog, slept,
                   data, ret, out, reads>>

(***************************************************************************)
(* read, lines 104-107: match NunchuckReading::from_data(&buf)             *)
(***************************************************************************)
read_decode ==
    /\ pc = "read_decode"
    /\ data' = buf
    /\ ret' = from_data(buf)
    /\ result' = IF from_data(buf).tag = "Some"
                 THEN Ok(from_data(buf).val)
                 ELSE Err(Other("Unable to Parse Data"))
    /\ pc' = "read_ret"
    /\ UNCHANGED <<handle, opens, session, newres, initres, initlog, rdlog,
                   slept, buf, got, out, fault, reads>>

\* the loop left on the first failed read
main_print_break ==
    /\ pc = "read_ret"
    /\ IF result.tag = "Ok"
       THEN /\ out' = "reading"
            /\ pc' = "loop"
       ELSE /\ out' = "Error"
            /\ pc' = "exit"
    /\ reads' = Min(reads + 1, MaxReads)
    /\ UNCHANGED <<handle, opens, session, newres, initres, initlog, rdlog,
                   slept, buf, got, data, ret, result, fault>>

(***************************************************************************)
(* main, lines 119-124: one turn of the loop, printing what read returned  *)
(***************************************************************************)
main_print ==
    /\ pc = "read_ret"
    /\ out' = IF result.tag = "Ok" THEN "reading" ELSE "Error"
    /\ reads' = Min(reads + 1, MaxReads)
    /\ pc' = "loop"
    /\ UNCHANGED <<handle, opens, session, newres, initres, initlog, rdlog,
                   slept, buf, got, data, ret, result, fault>>

Next ==
    \/ new_open
    \/ init_write1
    \/ init_write2
    \/ new_return
    \/ main_match
    \/ read_enter
    \/ read_trigger
    \/ read_sleep
    \/ read_bytes
    \/ read_decode
    \/ main_print

Spec == Init /\ [][Next]_vars

\* the program is one thread that is always scheduled again
LiveSpec == Spec /\ WF_vars(Next)

(***************************************************************************)
(* NunchuckReading::from_data on its own: the caller hands in a slice of   *)
(* any length 0..MaxLen; the bus is left alone.                            *)
(***************************************************************************)
DecodeInit ==
    /\ pc = "from_data"
    /\ handle = "none"
    /\ opens = 0
    /\ session = FALSE
    /\ newres = NoResult
    /\ initres = NoResult
    /\ initlog = <<>>
    /\ rdlog = <<>>
    /\ slept = 0
    /\ buf = Zeros(BufLen)
    /\ got = -1
    /\ data \in SeqsUpTo(ByteVals, MaxLen)
    /\ ret = NotCalled
    /\ result = NoResult
    /\ out = "none"
    /\ fault = NoFault
    /\ reads = 0

decode_call ==
    /\ pc = "from_data"
    /\ ret' = from_data(data)
    /\ pc' = "returned"
    /\ UNCHANGED <<data, handle, opens, session, newres, initlog, rdlog,
                   slept, buf, got, result, out, initres, fault, reads>>

DecodeNext == decode_call

DecodeSpec == DecodeInit /\ [][DecodeNext]_vars

(***************************************************************************)
(* Properties of the bus protocol, checked under Spec and LiveSpec         *)
(***************************************************************************)
Last(q) == q[Len(q)]

AllButLastOk(q) == \A i \in 1..(Len(q) - 1) : q[i].err = "ok"

IsHandshake1(t) == t.op = "smbus_write_byte_data" /\ t.reg = 240 /\ t.val = 85

IsHandshake2(t) == t.op = "smbus_write_byte_data" /\ t.reg = 251 /\ t.val = 0

IsTrigger(t) == t.op = "smbus_write_byte" /\ t.reg = -1 /\ t.val = 0

IsRead6After10(t) == t.op = "read" /\ t.len = 6 /\ t.after = 10

HandshakeDone ==
    /\ Len(initlog) = 2
    /\ IsHandshake1(initlog[1]) /\ initlog[1].err = "ok"
    /\ IsHandshake2(initlog[2]) /\ initlog[2].err = "ok"

\* C1: init issues (0xF0, 0x55) then (0xFB, 0x00) and nothing else; it
\* returns Ok only after both; when the transport fails the first write the
\* second is never sent and init returns that transport error.
C1_InitHandshake ==
    /\ Len(initlog) <= 2
    /\ Len(initlog) >= 1 => IsHandshake1(initlog[1])
    /\ Len(initlog) = 2 => IsHandshake2(initlog[2]) /\ initlog[1].err = "ok"
    /\ initres.tag = "Ok" => HandshakeDone
    /\ pc \in { "init_ret", "new_ret", "exit", "loop" } /\ handle # "none"
          => initres.tag # "none"
    /\ (Len(initlog) >= 1 /\ initlog[1].err # "ok") =>
          /\ Len(initlog) = 1
          /\ initres = Err(Transport(initlog[1].err))

C1_Witness ==
    /\ pc = "exit"
    /\ Len(initlog) = 1
    /\ initlog[1].err = "EIO"
    /\ initres = Err(Transport("EIO"))

\* C2 as stated: every call of read that has returned issued exactly one
\* trigger write followed by exactly one 6-byte read 10 ms later.
C2_AlwaysTriggerThenRead ==
    pc = "read_ret" =>
        /\ Len(rdlog) = 2
        /\ IsTrigger(rdlog[1])
        /\ IsRead6After10(rdlog[2])

\* C2 amended: every call of read issues exactly one trigger write (0x00, no
\* register); when it succeeds it is followed, 10 ms later, by exactly one
\* 6-byte read and nothing else; when it fails read returns that transport
\* error and issues no read.
C2_TriggerThenReadUnlessTriggerFails ==
    /\ Len(rdlog) <= 2
    /\ Len(rdlog) >= 1 => IsTrigger(rdlog[1])
    /\ Len(rdlog) = 2 => rdlog[1].err = "ok" /\ IsRead6After10(rdlog[2])
    /\ pc \in { "read_sleep", "read_bytes" } => Len(rdlog) = 1
    /\ pc = "read_decode" => Len(rdlog) = 2
    /\ pc = "read_ret" =>
          \/ Len(rdlog) = 2
          \/ /\ Len(rdlog) = 1
             /\ rdlog[1].err # "ok"
             /\ result = Err(Transport(rdlog[1].err))

C2_Witness ==
    /\ pc = "read_ret"
    /\ Len(rdlog) = 2
    /\ rdlog[2].after = 10
    /\ result.tag = "Ok"

\* C3: a Session exists only after the open and both handshake writes
\* succeeded; a failure of either is what Nunchuck::new returns, unmodified,
\* and then there is no Session and no trigger write or read; every
\* transaction of read is preceded by a completed handshake.
C3_ReadOnlyAfterHandshake ==
    /\ (session \/ newres.tag = "Ok") =>
          handle = "open" /\ opens = 1 /\ HandshakeDone
    /\ session => newres.tag = "Ok"
    /\ newres.tag = "Err" =>
          /\ ~session
          /\ rdlog = <<>>
          /\ pc \in { "new_ret", "exit" }
          /\ newres.err = fault
          /\ initlog # <<>> => newres.err = Transport(Last(initlog).err)
    /\ (rdlog # <<>> \/ pc \in { "read_trigger", "read_sleep", "read_bytes",
                                  "read_decode", "read_ret" }) =>
          session /\ HandshakeDone

C3_Witness ==
    /\ pc = "exit"
    /\ Len(initlog) = 2
    /\ newres = Err(Transport("ENXIO"))
    /\ handle = "closed"

\* C4: a transport read that succeeds with fewer than 6 bytes makes read
\* return the decode error "Unable to Parse Data", not a Reading.
C4_ShortReadIsDecodeError ==
    (pc = "read_ret" /\ got >= 0 /\ got < 6) =>
        result = Err(Other("Unable to Parse Data"))

\* C5 as stated: whenever an operation reports an error none of its bus
\* writes has been delivered.
C5_ErrorMeansNothingWritten ==
    /\ (initres.tag = "Err" \/ newres.tag = "Err") =>
          \A i \in 1..Len(initlog) : initlog[i].err # "ok"
    /\ result.tag = "Err" =>
          \A i \in 1..Len(rdlog) :
              rdlog[i].op = "smbus_write_byte" => rdlog[i].err # "ok"

\* C5 amended: every operation succeeds fully or reports an error, without
\* retry: an operation that reports an error stopped at the transaction
\* that failed, sent it once, and reports that transaction's error, while
\* the writes that succeeded before it stay delivered; an operation that
\* reports success had every one of its transactions accepted.
C5_ErrorStopsAtFailedTransaction ==
    /\ initres.tag = "Err" =>
          /\ initlog # <<>>
          /\ Last(initlog).err # "ok"
          /\ AllButLastOk(initlog)
          /\ initres = Err(Transport(Last(initlog).err))
          /\ newres.tag \in { "none", "Err" }
    /\ initres.tag = "Ok" => \A i \in 1..Len(initlog) : initlog[i].err = "ok"
    /\ newres.tag = "Err" =>
          \/ initlog = <<>> /\ handle = "none"
          \/ newres = initres
    /\ result.tag = "Err" =>
          /\ rdlog # <<>>
          /\ Last(rdlog).err # "ok"
          /\ AllButLastOk(rdlog)
          /\ result = Err(Transport(Last(rdlog).err))
    /\ result.tag = "Ok" =>
          Len(rdlog) = 2 /\ \A i \in 1..2 : rdlog[i].err = "ok"
    /\ \A i, j \in 1..Len(rdlog) : i # j => rdlog[i].op # rdlog[j].op
    /\ \A i, j \in 1..Len(initlog) : i # j => initlog[i].reg # initlog[j].reg

C5_Witness ==
    /\ pc = "read_ret"
    /\ result.tag = "Err"
    /\ Len(rdlog) = 2
    /\ rdlog[1].err = "ok"

\* C6: once open has succeeded the loop never ends: a failed read is
\* reported and followed by another read on the same open handle, with no
\* second open and no second init.
C6_LoopNeverEnds ==
    /\ [][(pc = "read_ret" /\ result.tag = "Err") =>
            /\ pc' = "loop"
            /\ out' = "Error"
            /\ handle' = "open"
            /\ opens' = opens
            /\ initlog' = initlog]_vars
    /\ [](session => pc # "exit" /\ handle = "open" /\ opens = 1
                                /\ Len(initlog) = 2)
    /\ ((pc = "read_ret" /\ result.tag = "Err") ~> (pc = "read_trigger"))
    /\ ((pc = "read_trigger") ~> (rdlog # <<>>))

C6_Witness ==
    /\ session
    /\ out = "Error"
    /\ reads >= 1
    /\ rdlog # <<>>
    /\ handle = "open"

(***************************************************************************)
(* Properties of from_data, checked under DecodeSpec                       *)
(***************************************************************************)

\* C7: a slice of fewer than 6 bytes decodes to None, which carries no
\* Reading at all; a slice of 6 or more bytes decodes to Some Reading.
C7_ShortSliceIsNone ==
    pc = "returned" =>
        /\ Len(data) < 6  => ret.tag = "None" /\ DOMAIN ret = { "tag" }
        /\ Len(data) >= 6 => ret.tag = "Some" /\ ret.val.joystick_x = data[1]

C7_Witness ==
    pc = "returned" /\ Len(data) = 5 /\ ret.tag = "None"

\* C8: for a 6-byte slice each acceleration is the whole high byte times 4
\* (no bit of it lost) plus its 2-bit fragment of byte 5: bits 7-6 for x,
\* 5-4 for y, 3-2 for z.
C8_AccelLayout ==
    (pc = "returned" /\ Len(data) = 6) =>
        /\ ret.val.accel_x = 4 * data[3] + ((data[6] \div 64) % 4)
        /\ ret.val.accel_y = 4 * data[4] + ((data[6] \div 16) % 4)
        /\ ret.val.accel_z = 4 * data[5] + ((data[6] \div 4) % 4)

C8_Witness ==
    /\ pc = "returned"
    /\ data = <<0, 0, 255, 255, 255, 109>>
    /\ ret.val.accel_x = 1021
    /\ ret.val.accel_y = 1022
    /\ ret.val.accel_z = 1023

\* C9: for a 6-byte slice the C button is pressed exactly when bit 1 of
\* byte 5 is clear and the Z button exactly when bit 0 is clear, whatever
\* the other bits and bytes; all-zero input gives both pressed and byte 5 =
\* 0b00000011 gives both released.
C9_ButtonsActiveLow ==
    (pc = "returned" /\ Len(data) = 6) =>
        /\ ret.val.c_button_pressed = ((data[6] \div 2) % 2 = 0)
        /\ ret.val.z_button_pressed = (data[6] % 2 = 0)
        /\ data = <<0, 0, 0, 0, 0, 0>> =>
              ret.val.c_button_pressed /\ ret.val.z_button_pressed
        /\ data[6] = 3 =>
              ~ret.val.c_button_pressed /\ ~ret.val.z_button_pressed

C9_Witness ==
    /\ pc = "returned"
    /\ data = <<255, 255, 255, 255, 255, 109>>
    /\ ret.val.c_button_pressed
    /\ ~ret.val.z_button_pressed

\* every value 0..1023 of one axis is decoded from some 6-byte slice
Attainable ==
    \A v \in 0..1023 :
        /\ from_data(<<0, 0, v \div 4, 0, 0, (v % 4) * 64>>).val.accel_x = v
        /\ from_data(<<0, 0, 0, v \div 4, 0, (v % 4) * 16>>).val.accel_y = v
        /\ from_data(<<0, 0, 0, 0, v \div 4, (v % 4) * 4>>).val.accel_z = v

\* C10: for a 6-byte slice of bytes 0..255 each acceleration lies in
\* 0..1023; the three fragments are bits 7-6, 5-4 and 3-2 of byte 5, which
\* together with the two button bits make up byte 5 without overlap; and
\* every value 0..1023 is attainable on each axis.
C10_AccelRange ==
    /\ (pc = "returned" /\ Len(data) = 6) =>
          /\ \A i \in 1..6 : data[i] \in 0..255
          /\ ret.val.accel_x \in 0..1023
          /\ ret.val.accel_y \in 0..1023
          /\ ret.val.accel_z \in 0..1023
          /\ data[6] = 64 * (ret.val.accel_x % 4) + 16 * (ret.val.accel_y % 4)
                        + 4 * (ret.val.accel_z % 4) + (data[6] % 4)
    /\ Attainable

C10_Witness ==
    /\ pc = "returned"
    /\ data = <<255, 255, 255, 255, 255, 255>>
    /\ ret.val.accel_x = 1023
    /\ ret.val.accel_y = 1023
    /\ ret.val.accel_z = 1023

====
